---- MODULE Spec2Model ----
(***************************************************************************)
(* MultiWii Serial Protocol: the byte-fed frame parser and the serializers *)
(* of src/src/packet.rs, and the request/response stub of                  *)
(* src/src/async_stub.rs.                                                  *)
(*                                                                         *)
(* A payload is modelled by its byte view: MspPacket.data = None is the    *)
(* empty sequence, Some(p) is the sequence p.encode() of p.len() bytes.    *)
(* A payload type P is modelled by its packed size: P::decode(n) succeeds  *)
(* exactly when n has that many bytes.                                     *)
(***************************************************************************)
EXTENDS Integers, Sequences, FiniteSets, TLC

VARIABLES
    parser,      \* the MspParser under test
    ret,         \* what its last call returned
    op,          \* the last call: "new", "parse", "reset"
    lastInput,   \* the byte of the last parse call
    lastState,   \* the parser's state before the last call
    consumed,    \* bytes accepted since the '$' that opened the frame
    hadErr,      \* a byte since that '$' was answered with an error
    resetFrom,   \* the state the parser was in at the last reset ("none": never reset)
    fresh,       \* a parser constructed at the last reset, fed the same bytes
    retFresh,    \* what its last call returned
    pkt,         \* round trip: the MspPacket serialized
    ver,         \* round trip: the serializer used, "V1" or "V2"
    buflen,      \* round trip: output.len()
    output,      \* round trip: the output buffer, then the bytes on the wire
    serret,      \* round trip: what the serializer returned
    flip,        \* round trip: <<index, bit>> of the bit flipped on the wire, or <<>>
    njunk,       \* round trip: junk bytes fed before the frame
    primed,      \* round trip: the parser has parsed an earlier frame
    pos,         \* round trip: bytes of output fed to the parser
    pc,          \* round trip: "idle", "start", "failed", "serialized", "feeding"
    now,         \* stub: the clock Instant::now() reads
    buf,         \* stub: buf[0], the byte read_exact fills
    pending,     \* stub: VecDeque<Pending>, records [cmd, backchannel, ts]
    rx,          \* stub: requests sent on tx and not yet received
    txOpen,      \* stub: the AsyncMspStub handle (tx) has not been dropped
    reader,      \* stub: bytes the transport reader holds
    readerClosed, \* stub: the reader is at end of file
    writer,      \* stub: the buffers the transport writer accepted, in order
    response,    \* stub: the decoded packet the correlation loop is handling
    dpc,         \* stub: the task is at "select", in the "correlate" loop, or "panicked"
    alive,       \* stub: per request, its caller still holds the delivery receiver
    delivered,   \* stub: per request, the results its delivery channel received
    reqs,        \* stub: per request (in order of submission), its command
    frames,      \* stub: the frames that arrived on the reader, in order
    done,        \* stub: decoded frames whose handling has finished
    faults,      \* stub: faults injected so far
    sizeCheck,   \* stub: crate::MspPacket::serialize_v2 refuses a buffer of another size
    decoded,     \* stub: the pending queue and the clock when response was decoded
    panicLine,   \* stub: the line of the unwrap() that panicked, 0 while the task runs
    readFailed   \* stub: a read_exact has failed

feedVars ==
    <<parser, ret, op, lastInput, lastState, consumed, hadErr, resetFrom, fresh, retFresh>>

rtVars == <<pkt, ver, buflen, output, serret, flip, njunk, primed, pos, pc>>

stubVars ==
    <<now, buf, pending, rx, txOpen, reader, readerClosed, writer, response, dpc,
      alive, delivered, reqs, frames, done, faults, sizeCheck, decoded, panicLine,
      readFailed>>

vars == <<feedVars, rtVars, stubVars>>

(***************************************************************************)
(* Bounds of the model.                                                    *)
(***************************************************************************)
\* longest payload the sampled inputs declare
MaxLen == 2
\* most junk bytes fed before a frame
MaxJunk == 2

(***************************************************************************)
(* Wire constants.                                                         *)
(***************************************************************************)
B_DOLLAR == 36
B_M == 77
B_X == 88
B_REQUEST == 60
B_RESPONSE == 62
B_ERROR == 33
\* generator polynomial of CRCu8::crc8dvb_s2()
CRC8_POLY == 213

Byte == 0..255

(***************************************************************************)
(* u8 arithmetic.                                                          *)
(***************************************************************************)
RECURSIVE XorBits(_, _, _)
XorBits(a, b, n) ==
    IF n = 0 THEN 0
    ELSE (((a % 2) + (b % 2)) % 2) + (2 * XorBits(a \div 2, b \div 2, n - 1))

\* the ^ operator on u8, tabulated
XorTable == [a \in Byte |-> [b \in Byte |-> XorBits(a, b, 8)]]

Xor(a, b) == XorTable[a][b]

\* x as u8
AsU8(x) == x % 256

\* u16::to_le_bytes / u16::from_le_bytes
ToLeBytes(x) == <<x % 256, (x \div 256) % 256>>

\* mutant: the two bytes read in the wrong order
FromBeBytes(s) == s[2] + (256 * s[1])

FromLeBytes(s) == s[1] + (256 * s[2])

\* x as u16
AsU16(x) == x % 65536

(***************************************************************************)
(* CRCu8::crc8dvb_s2(): polynomial 0xD5, initial value 0, not reflected,    *)
(* no final xor.  The engine's state is its register.                      *)
(***************************************************************************)
RECURSIVE Crc8Shift(_, _)
Crc8Shift(x, n) ==
    IF n = 0 THEN x
    ELSE Crc8Shift(IF x >= 128 THEN XorBits((2 * x) % 256, CRC8_POLY, 8)
                               ELSE 2 * x, n - 1)

Crc8Table == [x \in Byte |-> Crc8Shift(x, 8)]

crc8dvb_s2 == 0

RECURSIVE digest(_, _)
digest(crc, bytes) ==
    IF bytes = <<>> THEN crc
    ELSE digest(Crc8Table[Xor(crc, Head(bytes))], Tail(bytes))

get_crc(crc) == crc

\* data.iter().fold(init, |crc, byte| crc ^ byte)
\* (^ is associative: the bytes are combined by halves, which keeps the
\* evaluation shallow on a long payload)
RECURSIVE XorAll(_)
XorAll(bytes) ==
    IF bytes = <<>> THEN 0
    ELSE IF Len(bytes) = 1 THEN bytes[1]
    ELSE LET h == Len(bytes) \div 2
         IN  Xor(XorAll(SubSeq(bytes, 1, h)), XorAll(SubSeq(bytes, h + 1, Len(bytes))))

XorFold(init, bytes) == Xor(init, XorAll(bytes))

(***************************************************************************)
(* Results.  Every value has the same shape so that any two compare.       *)
(***************************************************************************)
NoPacket == [cmd |-> 0, direction |-> "Request", data |-> <<>>]
NoError == [type |-> "none", a |-> 0, b |-> 0]

OkNone == [tag |-> "None", packet |-> NoPacket, err |-> NoError]
OkSome(p) == [tag |-> "Some", packet |-> p, err |-> NoError]
Err(e) == [tag |-> "Err", packet |-> NoPacket, err |-> e]

UnknownDirection(byte) == [type |-> "UnknownDirection", a |-> byte, b |-> 0]
UnknownVersion(byte) == [type |-> "UnknownVersion", a |-> byte, b |-> 0]
CrcMismatch(expected, calculated) ==
    [type |-> "CrcMismatch", a |-> expected, b |-> calculated]
OutputBufferSizeMismatch == [type |-> "OutputBufferSizeMismatch", a |-> 0, b |-> 0]
Packing == [type |-> "Packing", a |-> 0, b |-> 0]

(***************************************************************************)
(* Direction and version codecs.                                           *)
(***************************************************************************)
Directions == {"Request", "Response", "Error"}

DirectionToU8(d) ==
    CASE d = "Request" -> B_REQUEST
      [] d = "Response" -> B_RESPONSE
      [] d = "Error" -> B_ERROR

\* TryFrom<u8> for MspPacketDirection: [ok, value, err]
DirectionTryFrom(byte) ==
    CASE byte = B_REQUEST -> [ok |-> TRUE, value |-> "Request", err |-> NoError]
      [] byte = B_RESPONSE -> [ok |-> TRUE, value |-> "Response", err |-> NoError]
      [] byte = B_ERROR -> [ok |-> TRUE, value |-> "Error", err |-> NoError]
      [] OTHER -> [ok |-> FALSE, value |-> "Request", err |-> UnknownDirection(byte)]

VersionToU8(v) == IF v = "V1" THEN B_M ELSE B_X

\* TryFrom<u8> for MspVersion
VersionTryFrom(byte) ==
    CASE byte = B_M -> [ok |-> TRUE, value |-> "V1", err |-> NoError]
      [] byte = B_X -> [ok |-> TRUE, value |-> "V2", err |-> NoError]
      [] OTHER -> [ok |-> FALSE, value |-> "V1", err |-> UnknownVersion(byte)]

\* P::decode(n) for a payload type of P packed bytes
decode(n, P) ==
    IF Len(n) = P THEN [ok |-> TRUE, value |-> n, err |-> NoError]
    ELSE [ok |-> FALSE, value |-> <<>>, err |-> Packing]

(***************************************************************************)
(* MspParser.                                                              *)
(***************************************************************************)
MspParser_new ==
    [state |-> "Header1",
     packet_version |-> "V1",
     packet_direction |-> "Request",
     packet_data_length_remaining |-> 0,
     packet_cmd |-> 0,
     packet_data |-> <<>>,
     packet_crc |-> 0,
     packet_crc_v2 |-> crc8dvb_s2]

state_is_between_packets(self) == self.state = "Header1"

\* mutant: reset() that leaves the v1 checksum accumulator as it is
MspParser_reset_KeepsCrc(self) ==
    [self EXCEPT !.state = "Header1",
                 !.packet_direction = "Request",
                 !.packet_data_length_remaining = 0,
                 !.packet_cmd = 0,
                 !.packet_data = <<>>,
                 !.packet_crc_v2 = crc8dvb_s2]

MspParser_reset(self) ==
    [self EXCEPT !.state = "Header1",
                 !.packet_direction = "Request",
                 !.packet_data_length_remaining = 0,
                 !.packet_cmd = 0,
                 !.packet_data = <<>>,
                 !.packet_crc = 0,
                 !.packet_crc_v2 = crc8dvb_s2]

\* the arms of parse, one per state: the parser afterwards and the value returned
\* mutant: Header1 that takes any byte for the '$'
ParseHeader1_AnyByte(self, input) ==
    [self |-> [self EXCEPT !.state = "Header2"], ret |-> OkNone]

ParseHeader1(self, input) ==
    IF input = B_DOLLAR
    THEN [self |-> [self EXCEPT !.state = "Header2"], ret |-> OkNone]
    ELSE [self |-> MspParser_reset(self), ret |-> OkNone]

ParseHeader2(self, input) ==
    LET v == VersionTryFrom(input)
    IN  IF ~v.ok THEN [self |-> self, ret |-> Err(v.err)]
        ELSE [self |-> [self EXCEPT !.packet_version = v.value,
                                    !.state = "Direction"],
              ret |-> OkNone]

ParseDirection(self, input) ==
    LET d == DirectionTryFrom(input)
    IN  IF ~d.ok THEN [self |-> self, ret |-> Err(d.err)]
        ELSE [self |-> [self EXCEPT
                         !.packet_direction = d.value,
                         !.state = IF self.packet_version = "V1"
                                   THEN "DataLength" ELSE "FlagV2"],
              ret |-> OkNone]

ParseFlagV2(self, input) ==
    [self |-> [self EXCEPT
                !.state = "CommandV2",
                !.packet_data = <<>>,
                !.packet_crc_v2 = digest(self.packet_crc_v2, <<input>>)],
     ret |-> OkNone]

ParseCommandV2(self, input) ==
    LET data == Append(self.packet_data, input)
    IN  IF Len(data) = 2
        THEN [self |-> [self EXCEPT
                         !.packet_cmd = FromLeBytes(data),
                         !.packet_crc_v2 = digest(self.packet_crc_v2, data),
                         !.packet_data = <<>>,
                         !.state = "DataLengthV2"],
              ret |-> OkNone]
        ELSE [self |-> [self EXCEPT !.packet_data = data], ret |-> OkNone]

ParseDataLengthV2(self, input) ==
    LET data == Append(self.packet_data, input)
    IN  IF Len(data) = 2
        THEN [self |-> [self EXCEPT
                         !.packet_data_length_remaining = FromLeBytes(data),
                         !.packet_crc_v2 = digest(self.packet_crc_v2, data),
                         !.packet_data = <<>>,
                         !.state = IF FromLeBytes(data) = 0
                                   THEN "Crc" ELSE "DataV2"],
              ret |-> OkNone]
        ELSE [self |-> [self EXCEPT !.packet_data = data], ret |-> OkNone]

ParseDataV2(self, input) ==
    LET remaining == self.packet_data_length_remaining - 1
    IN  [self |-> [self EXCEPT
                    !.packet_data = Append(self.packet_data, input),
                    !.packet_data_length_remaining = remaining,
                    !.state = IF remaining = 0 THEN "Crc" ELSE "DataV2"],
         ret |-> OkNone]

ParseDataLength(self, input) ==
    [self |-> [self EXCEPT
                !.packet_data_length_remaining = input,
                !.state = "Command",
                !.packet_crc = Xor(self.packet_crc, input),
                !.packet_data = <<>>],
     ret |-> OkNone]

ParseCommand(self, input) ==
    [self |-> [self EXCEPT
                !.packet_cmd = input,
                !.state = IF self.packet_data_length_remaining = 0
                          THEN "Crc" ELSE "Data",
                !.packet_crc = Xor(self.packet_crc, input)],
     ret |-> OkNone]

\* mutant: payload bytes left out of the v1 checksum
ParseData_NoCrc(self, input) ==
    LET remaining == self.packet_data_length_remaining - 1
    IN  [self |-> [self EXCEPT
                    !.packet_data = Append(self.packet_data, input),
                    !.packet_data_length_remaining = remaining,
                    !.state = IF remaining = 0 THEN "Crc" ELSE "Data"],
         ret |-> OkNone]

ParseData(self, input) ==
    LET remaining == self.packet_data_length_remaining - 1
    IN  [self |-> [self EXCEPT
                    !.packet_data = Append(self.packet_data, input),
                    !.packet_data_length_remaining = remaining,
                    !.packet_crc = Xor(self.packet_crc, input),
                    !.state = IF remaining = 0 THEN "Crc" ELSE "Data"],
         ret |-> OkNone]

\* mutant: the v2 payload left out of the checksum
ParseCrc_NoPayloadDigest(self, input, P) ==
    LET packet_crc == IF self.packet_version = "V2" THEN get_crc(self.packet_crc_v2)
                      ELSE self.packet_crc
        s1 == [self EXCEPT !.packet_crc = packet_crc]
        n == self.packet_data
        s2 == [s1 EXCEPT !.packet_data = <<>>]
        d == decode(n, P)
    IN  IF input # packet_crc
        THEN [self |-> MspParser_reset(s1),
              ret |-> Err(CrcMismatch(input, packet_crc))]
        ELSE IF Len(n) # 0 /\ ~d.ok
        THEN [self |-> s2, ret |-> Err(d.err)]
        ELSE [self |-> MspParser_reset(s2),
              ret |-> OkSome([cmd |-> self.packet_cmd,
                              direction |-> self.packet_direction,
                              data |-> IF Len(n) = 0 THEN <<>> ELSE d.value])]

ParseCrc(self, input, P) ==
    LET crc2 == IF self.packet_version = "V2"
                THEN digest(self.packet_crc_v2, self.packet_data)
                ELSE self.packet_crc_v2
        packet_crc == IF self.packet_version = "V2" THEN get_crc(crc2)
                      ELSE self.packet_crc
        s1 == [self EXCEPT !.packet_crc_v2 = crc2, !.packet_crc = packet_crc]
        n == self.packet_data
        s2 == [s1 EXCEPT !.packet_data = <<>>]
        d == decode(n, P)
    IN  IF input # packet_crc
        THEN [self |-> MspParser_reset(s1),
              ret |-> Err(CrcMismatch(input, packet_crc))]
        ELSE IF Len(n) # 0 /\ ~d.ok
        THEN [self |-> s2, ret |-> Err(d.err)]
        ELSE [self |-> MspParser_reset(s2),
              ret |-> OkSome([cmd |-> self.packet_cmd,
                              direction |-> self.packet_direction,
                              data |-> IF Len(n) = 0 THEN <<>> ELSE d.value])]

\* parse::<P>(&mut self, input)
MspParser_parse(self, input, P) ==
    CASE self.state = "Header1" -> ParseHeader1(self, input)
      [] self.state = "Header2" -> ParseHeader2(self, input)
      [] self.state = "Direction" -> ParseDirection(self, input)
      [] self.state = "FlagV2" -> ParseFlagV2(self, input)
      [] self.state = "CommandV2" -> ParseCommandV2(self, input)
      [] self.state = "DataLengthV2" -> ParseDataLengthV2(self, input)
      [] self.state = "DataV2" -> ParseDataV2(self, input)
      [] self.state = "DataLength" -> ParseDataLength(self, input)
      [] self.state = "Command" -> ParseCommand(self, input)
      [] self.state = "Data" -> ParseData(self, input)
      [] self.state = "Crc" -> ParseCrc(self, input, P)

(***************************************************************************)
(* MspPacket: sizes and serializers.  l is output.len(); the result is     *)
(* [ret, output] with output the buffer afterwards (l zero bytes before).  *)
(***************************************************************************)
packet_size_bytes(packet) == 6 + Len(packet.data)

packet_size_bytes_v2(packet) == 9 + Len(packet.data)

Zeros(l) == [i \in 1..l |-> 0]

\* mutant: the command left out of the v1 checksum
MspPacket_serialize_CrcSkipsCmd(packet, l) ==
    IF l # packet_size_bytes(packet)
    THEN [ret |-> Err(OutputBufferSizeMismatch), output |-> Zeros(l)]
    ELSE LET len == AsU8(Len(packet.data))
             cmd == AsU8(packet.cmd)
             crc == XorFold(len, packet.data)
         IN  [ret |-> OkNone,
              output |-> <<B_DOLLAR, B_M, DirectionToU8(packet.direction), len, cmd>>
                         \o packet.data \o <<crc>>]

MspPacket_serialize(packet, l) ==
    IF l # packet_size_bytes(packet)
    THEN [ret |-> Err(OutputBufferSizeMismatch), output |-> Zeros(l)]
    ELSE LET len == AsU8(Len(packet.data))
             cmd == AsU8(packet.cmd)
             crc == XorFold(Xor(len, cmd), packet.data)
         IN  [ret |-> OkNone,
              output |-> <<B_DOLLAR, B_M, DirectionToU8(packet.direction), len, cmd>>
                         \o packet.data \o <<crc>>]

\* mutant: the command written high byte first
MspPacket_serialize_v2_BeCmd(packet, l) ==
    IF l # packet_size_bytes_v2(packet)
    THEN [ret |-> Err(OutputBufferSizeMismatch), output |-> Zeros(l)]
    ELSE LET le == ToLeBytes(packet.cmd)
             head == <<0, le[2], le[1]>>
                     \o ToLeBytes(AsU16(Len(packet.data))) \o packet.data
         IN  [ret |-> OkNone,
              output |-> <<B_DOLLAR, B_X, DirectionToU8(packet.direction)>>
                         \o head \o <<get_crc(digest(crc8dvb_s2, head))>>]

MspPacket_serialize_v2(packet, l) ==
    IF l # packet_size_bytes_v2(packet)
    THEN [ret |-> Err(OutputBufferSizeMismatch), output |-> Zeros(l)]
    ELSE LET head == <<0>> \o ToLeBytes(packet.cmd)
                     \o ToLeBytes(AsU16(Len(packet.data))) \o packet.data
         IN  [ret |-> OkNone,
              output |-> <<B_DOLLAR, B_X, DirectionToU8(packet.direction)>>
                         \o head \o <<get_crc(digest(crc8dvb_s2, head))>>]

(***************************************************************************)
(* Spec: one parser fed arbitrary bytes, reset at arbitrary moments.       *)
(* The bytes are sampled by the place they arrive at; a declared payload   *)
(* length stays within MaxLen.                                             *)
(***************************************************************************)
HeaderBytes == {0, B_DOLLAR, B_M, B_X, B_REQUEST, B_RESPONSE, B_ERROR}

FieldBytes == {0, 1, B_DOLLAR}

\* the payload types parse::<P> is called with, by packed size
PayloadTypes == 1..MaxLen

\* P is read by the Crc arm alone
PayloadTypesAt(self) == IF self.state = "Crc" THEN PayloadTypes ELSE {1}

\* the checksum the Crc arm will compare its input with
ExpectedCrc(self) ==
    IF self.packet_version = "V2"
    THEN get_crc(digest(self.packet_crc_v2, self.packet_data))
    ELSE self.packet_crc

Inputs(self) ==
    CASE self.state \in {"Header1", "Header2", "Direction"} -> HeaderBytes
      [] self.state = "DataLength" -> 0..MaxLen
      [] self.state = "DataLengthV2" ->
            IF self.packet_data = <<>> THEN 0..MaxLen ELSE {0}
      [] self.state = "Crc" ->
            FieldBytes \cup {ExpectedCrc(self), Xor(ExpectedCrc(self), 1)}
      [] OTHER -> FieldBytes

InitFeed ==
    /\ parser = MspParser_new
    /\ ret = OkNone
    /\ op = "new"
    /\ lastInput = 0
    /\ lastState = "Header1"
    /\ consumed = <<>>
    /\ hadErr = FALSE
    /\ resetFrom = "none"
    /\ fresh = MspParser_new
    /\ retFresh = OkNone

Feed(b, P) ==
    LET r == MspParser_parse(parser, b, P)
        f == MspParser_parse(fresh, b, P)
    IN  /\ parser' = r.self
        /\ ret' = r.ret
        /\ op' = "parse"
        /\ lastInput' = b
        /\ lastState' = parser.state
        /\ consumed' = IF parser.state = "Header1"
                       THEN (IF b = B_DOLLAR THEN <<b>> ELSE <<>>)
                       ELSE IF r.ret.tag = "Err" THEN consumed
                       ELSE Append(consumed, b)
        /\ hadErr' = IF parser.state = "Header1" THEN FALSE
                     ELSE (hadErr \/ r.ret.tag = "Err")
        /\ UNCHANGED resetFrom
        /\ fresh' = f.self
        /\ retFresh' = f.ret
        /\ UNCHANGED <<rtVars, stubVars>>

Reset ==
    /\ parser' = MspParser_reset(parser)
    /\ ret' = OkNone
    /\ op' = "reset"
    /\ lastInput' = 0
    /\ lastState' = parser.state
    /\ consumed' = <<>>
    /\ hadErr' = FALSE
    /\ resetFrom' = parser.state
    /\ fresh' = MspParser_new
    /\ retFresh' = OkNone
    /\ UNCHANGED <<rtVars, stubVars>>

RtIdle ==
    /\ pkt = NoPacket
    /\ ver = "V1"
    /\ buflen = 0
    /\ output = <<>>
    /\ serret = OkNone
    /\ flip = <<>>
    /\ njunk = 0
    /\ primed = FALSE
    /\ pos = 0
    /\ pc = "idle"

StubStart ==
    /\ now = 0
    /\ buf = 0
    /\ pending = <<>>
    /\ rx = <<>>
    /\ txOpen = TRUE
    /\ reader = <<>>
    /\ readerClosed = FALSE
    /\ writer = <<>>
    /\ response = NoPacket
    /\ dpc = "select"
    /\ alive = <<>>
    /\ delivered = <<>>
    /\ reqs = <<>>
    /\ frames = <<>>
    /\ done = 0
    /\ faults = 0
    /\ decoded = [queue |-> <<>>, at |-> 0]
    /\ panicLine = 0
    /\ readFailed = FALSE

StubIdle ==
    /\ StubStart
    /\ sizeCheck = FALSE

Init == InitFeed /\ RtIdle /\ StubIdle

Next ==
    \/ \E b \in Inputs(parser), P \in PayloadTypesAt(parser) : Feed(b, P)
    \/ Reset

Spec == Init /\ [][Next]_vars

(***************************************************************************)
(* Properties of the parser under Spec.                                    *)
(***************************************************************************)
\* the wire version of the frame being consumed
ConsumedVersion == IF consumed[2] = B_X THEN "V2" ELSE "V1"

\* serialize / serialize_v2 into a buffer of the exact size
Serialized(packet, version) ==
    IF version = "V1"
    THEN MspPacket_serialize(packet, packet_size_bytes(packet)).output
    ELSE MspPacket_serialize_v2(packet, packet_size_bytes_v2(packet)).output

\* the length, command and payload bytes consumed (v2: flag first), without
\* the three header bytes and without an accepted checksum byte
ConsumedFields ==
    SubSeq(consumed, 4,
           IF ret.tag = "Some" THEN Len(consumed) - 1 ELSE Len(consumed))

\* the checksum of the consumed fields, computed from the wire bytes alone
ChecksumOfConsumed ==
    IF ConsumedVersion = "V2" THEN digest(0, ConsumedFields)
    ELSE XorFold(0, ConsumedFields)

\* C4: whenever parse returns an error the parser is afterwards in Header1
\* (state_is_between_packets) with no partial frame data retained.
C4_ErrorResets ==
    (op = "parse" /\ ret.tag = "Err") =>
        /\ state_is_between_packets(parser)
        /\ parser = [MspParser_new EXCEPT !.packet_version = parser.packet_version]

C8_ChecksumGate ==
    (op = "parse" /\ lastState = "Crc") =>
        /\ ret.tag = "Some" => lastInput = ChecksumOfConsumed
        /\ lastInput # ChecksumOfConsumed =>
              /\ ret = Err(CrcMismatch(lastInput, ChecksumOfConsumed))
              /\ state_is_between_packets(parser)

C8_Witness ==
    /\ op = "parse"
    /\ lastState = "Crc"
    /\ ConsumedVersion = "V2"
    /\ Len(ConsumedFields) = 5 + MaxLen
    /\ lastInput # ChecksumOfConsumed
    /\ ret = Err(CrcMismatch(lastInput, ChecksumOfConsumed))
    /\ state_is_between_packets(parser)

\* C9: after reset() in any state the parser answers every later byte as a
\* freshly constructed parser does, and is between packets exactly when it is.
C9_ResetIsFresh ==
    /\ ret = retFresh
    /\ parser.state = fresh.state

C9_Witness ==
    /\ resetFrom = "DataV2"
    /\ op = "parse"
    /\ parser.packet_version = "V1"
    /\ ret.tag = "Some"
    /\ ret = retFresh

\* the payload length L the frame being consumed declares: the fourth byte
\* of a v1 frame, the seventh and eighth (little-endian) of a v2 frame
DeclaredLength ==
    IF ConsumedVersion = "V2"
    THEN FromLeBytes(<<consumed[7], consumed[8]>>)
    ELSE consumed[4]

\* in Data and DataV2 the counter is at least 1 and, with the bytes buffered,
\* makes up the declared length
CountsToDeclared ==
    parser.state \in {"Data", "DataV2"} =>
        /\ parser.packet_data_length_remaining >= 1
        /\ Len(parser.packet_data) + parser.packet_data_length_remaining = DeclaredLength

\* C22: in Data and DataV2 the remaining-length counter is at least 1 and the
\* buffered payload bytes plus the counter equal the declared length L; the
\* buffer holds at most L payload bytes, and an emitted frame's payload has
\* exactly L bytes.
C22_LengthAccounting ==
    /\ CountsToDeclared
    /\ parser.state \in {"Data", "DataV2", "Crc"} => Len(parser.packet_data) <= DeclaredLength
    /\ (op = "parse" /\ ret.tag = "Some") => Len(ret.packet.data) = DeclaredLength

\* the frames emitted with the declared number of payload bytes: those no
\* byte of which was answered with an error
C22_EmitsDeclared ==
    (op = "parse" /\ ret.tag = "Some" /\ ~hadErr) => Len(ret.packet.data) = DeclaredLength

(***************************************************************************)
(* SpecRoundTrip: a packet is serialized into a buffer of l bytes and the  *)
(* bytes are fed one at a time to a parser, as the tests roundtrip and     *)
(* pure_bytes_to_msp_v2 do.  Before the frame the parser may have parsed   *)
(* an earlier frame and may be fed junk; one bit of the wire bytes may be  *)
(* flipped.                                                                *)
(***************************************************************************)
CmdSample == {0, B_DOLLAR, 300}

PayloadBytes == {0, B_DOLLAR}

JunkBytes == {0, B_M, 255}

RECURSIVE SeqsUpTo(_, _)
SeqsUpTo(S, n) ==
    IF n = 0 THEN {<<>>}
    ELSE LET shorter == SeqsUpTo(S, n - 1)
         IN  shorter \cup {Append(q, x) : q \in shorter, x \in S}

\* a payload one byte too long for the v1 length field
LongPayload == [i \in 1..256 |-> 1]

Packets ==
    [cmd : CmdSample, direction : Directions, data : SeqsUpTo(PayloadBytes, MaxLen)]
    \cup {[cmd |-> 0, direction |-> "Request", data |-> LongPayload]}

EarlierPacket == [cmd |-> 300, direction |-> "Response", data |-> <<1>>]

\* parse applied to each byte in turn: the parser afterwards
RECURSIVE ParseAll(_, _, _)
ParseAll(self, bytes, P) ==
    IF bytes = <<>> THEN self
    ELSE ParseAll(MspParser_parse(self, Head(bytes), P).self, Tail(bytes), P)

RECURSIVE Pow2(_)
Pow2(k) == IF k = 0 THEN 1 ELSE 2 * Pow2(k - 1)

FlipBit(x, k) == Xor(x, Pow2(k))

InitRoundTrip ==
    /\ InitFeed
    /\ pkt \in Packets
    /\ ver \in {"V1", "V2"}
    /\ Len(pkt.data) > 255 => ver = "V1"
    /\ buflen \in {(IF ver = "V1" THEN packet_size_bytes(pkt)
                                ELSE packet_size_bytes_v2(pkt)) + d : d \in {0, 1}}
    /\ output = Zeros(buflen)
    /\ serret = OkNone
    /\ flip = <<>>
    /\ njunk = 0
    /\ primed = FALSE
    /\ pos = 0
    /\ pc = "start"
    /\ StubIdle

Serialize ==
    /\ pc = "start"
    /\ LET r == IF ver = "V1" THEN MspPacket_serialize(pkt, buflen)
                ELSE MspPacket_serialize_v2(pkt, buflen)
       IN  /\ serret' = r.ret
           /\ output' = r.output
           /\ pc' = IF r.ret.tag = "Err" THEN "failed" ELSE "serialized"
    /\ UNCHANGED <<feedVars, pkt, ver, buflen, flip, njunk, primed, pos>>
    /\ UNCHANGED stubVars

\* the parser has parsed a whole v2 frame before
ParseEarlierFrame ==
    /\ pc = "serialized"
    /\ ~primed /\ njunk = 0 /\ flip = <<>>
    /\ parser' = ParseAll(parser, Serialized(EarlierPacket, "V2"),
                          Len(EarlierPacket.data))
    /\ primed' = TRUE
    /\ UNCHANGED <<ret, op, lastInput, lastState, consumed, hadErr, resetFrom,
                   fresh, retFresh>>
    /\ UNCHANGED <<pkt, ver, buflen, output, serret, flip, njunk, pos, pc>>
    /\ UNCHANGED stubVars

FeedJunk(b) ==
    /\ pc = "serialized"
    /\ flip = <<>>
    /\ njunk < MaxJunk
    /\ LET r == MspParser_parse(parser, b, Len(pkt.data))
       IN  /\ parser' = r.self
           /\ ret' = r.ret
           /\ op' = "parse"
           /\ lastInput' = b
           /\ lastState' = parser.state
    /\ njunk' = njunk + 1
    /\ UNCHANGED <<consumed, hadErr, resetFrom, fresh, retFresh>>
    /\ UNCHANGED <<pkt, ver, buflen, output, serret, flip, primed, pos, pc>>
    /\ UNCHANGED stubVars

\* one bit of wire byte i (counted from 0) is flipped in transit
FlipWire(i, k) ==
    /\ pc = "serialized"
    /\ flip = <<>> /\ njunk = 0 /\ ~primed
    /\ i + 1 <= Len(output)
    /\ output' = [output EXCEPT ![i + 1] = FlipBit(output[i + 1], k)]
    /\ flip' = <<i, k>>
    /\ UNCHANGED <<feedVars, pkt, ver, buflen, serret, njunk, primed, pos, pc>>
    /\ UNCHANGED stubVars

FeedWire ==
    /\ pc \in {"serialized", "feeding"}
    /\ pos < Len(output)
    /\ LET r == MspParser_parse(parser, output[pos + 1], Len(pkt.data))
       IN  /\ parser' = r.self
           /\ ret' = r.ret
           /\ op' = "parse"
           /\ lastInput' = output[pos + 1]
           /\ lastState' = parser.state
    /\ pos' = pos + 1
    /\ pc' = "feeding"
    /\ UNCHANGED <<consumed, hadErr, resetFrom, fresh, retFresh>>
    /\ UNCHANGED <<pkt, ver, buflen, output, serret, flip, njunk, primed>>
    /\ UNCHANGED stubVars

NextRoundTrip ==
    \/ Serialize
    \/ ParseEarlierFrame
    \/ \E b \in JunkBytes : FeedJunk(b)
    \/ \E i \in 2..(8 + MaxLen), k \in 0..7 : FlipWire(i, k)
    \/ FeedWire

SpecRoundTrip == InitRoundTrip /\ [][NextRoundTrip]_vars

(***************************************************************************)
(* Properties of the round trip under SpecRoundTrip.                       *)
(***************************************************************************)
\* the packet fits the v1 wire format
FitsV1(p) == p.cmd <= 255 /\ Len(p.data) <= 255

\* the bytes on the wire are a valid frame carrying pkt
ValidFrame == ver = "V2" \/ FitsV1(pkt)

\* every byte of the frame fed so far but the last returned Ok(None); the
\* last returned Ok(Some(pkt)) and left the parser between packets
EmitsExactlyPkt ==
    IF pos < Len(output) THEN ret = OkNone
    ELSE /\ ret = OkSome(pkt)
         /\ state_is_between_packets(parser)

\* wire indices (from 0) of the payload-length field
LengthIndices == IF ver = "V1" THEN {3} ELSE {6, 7}

\* C1: the bytes of serialize(F), F within the v1 limits, fed to a fresh
\* parser return Ok(None) on every byte but the last, Ok(Some(F)) on the
\* last, and leave the parser in Header1.
C1_RoundTripV1 ==
    (/\ pc = "feeding" /\ ver = "V1" /\ FitsV1(pkt)
     /\ flip = <<>> /\ njunk = 0 /\ ~primed) => EmitsExactlyPkt

C1_Witness ==
    /\ pc = "feeding" /\ ver = "V1" /\ FitsV1(pkt)
    /\ flip = <<>> /\ njunk = 0 /\ ~primed
    /\ Len(pkt.data) = MaxLen
    /\ pos = Len(output)
    /\ ret = OkSome(pkt)

\* C2: the bytes of serialize_v2(F) fed to a fresh parser yield exactly one
\* frame, on the last byte, equal to F.
C2_RoundTripV2 ==
    (/\ pc = "feeding" /\ ver = "V2"
     /\ flip = <<>> /\ njunk = 0 /\ ~primed) => EmitsExactlyPkt

C2_Witness ==
    /\ pc = "feeding" /\ ver = "V2"
    /\ flip = <<>> /\ njunk = 0 /\ ~primed
    /\ pkt.cmd > 255
    /\ Len(pkt.data) = MaxLen
    /\ pos = Len(output)
    /\ ret = OkSome(pkt)

\* C3 as stated: with one bit flipped in bytes 2..N-1 of a valid frame the
\* parser never emits a frame that differs from the original.
C3_NoAlteredFrame ==
    (flip # <<>> /\ ValidFrame /\ op = "parse" /\ ret.tag = "Some") =>
        ret.packet = pkt

\* C3 amended: with one bit flipped in a byte other than the direction byte
\* and the length byte(s), every byte but the last returns Ok(None) and the
\* last returns CrcMismatch; no frame is emitted.
C3_FlipDetected ==
    (/\ flip # <<>> /\ ValidFrame /\ pc = "feeding"
     /\ flip[1] \notin ({2} \cup LengthIndices)) =>
        IF pos < Len(output) THEN ret = OkNone
        ELSE /\ ret.tag = "Err"
             /\ ret.err.type = "CrcMismatch"
             /\ state_is_between_packets(parser)

\* (a flipped length bit can make the parser emit a truncated frame: the
\* negation of this predicate is violated under SpecRoundTrip for v1 and v2)
C3_LengthFlipEmits ==
    /\ flip # <<>> /\ ValidFrame /\ op = "parse"
    /\ flip[1] \in LengthIndices
    /\ ret.tag = "Some"
    /\ ret.packet # pkt

C3_Witness ==
    /\ flip # <<>> /\ ValidFrame /\ pc = "feeding"
    /\ ver = "V2"
    /\ Len(pkt.data) = MaxLen
    /\ flip[1] = 8
    /\ pos = Len(output)
    /\ ret.tag = "Err"
    /\ ret.err.type = "CrcMismatch"

\* C5: junk without '$' fed to a parser in Header1 returns Ok(None) byte by
\* byte and leaves it in Header1; the valid frame that follows is emitted,
\* and nothing else is.
C5_Resync ==
    (flip = <<>> /\ ValidFrame /\ op = "parse") =>
        IF pc = "serialized"
        THEN ret = OkNone /\ state_is_between_packets(parser)
        ELSE EmitsExactlyPkt

C5_Witness ==
    /\ flip = <<>> /\ ValidFrame /\ pc = "feeding"
    /\ primed /\ njunk = MaxJunk
    /\ ver = "V1"
    /\ Len(pkt.data) = MaxLen
    /\ pos = Len(output)
    /\ ret = OkSome(pkt)

\* C7: serialize returns an error for a packet whose payload is longer than
\* 255 bytes or whose command exceeds 255.
C7_SerializeRejectsOversize ==
    (pc \in {"failed", "serialized", "feeding"} /\ ver = "V1" /\ ~FitsV1(pkt)) =>
        serret.tag = "Err"

(***************************************************************************)
(* The request/response stub of async_stub.rs: one task that owns the      *)
(* reader, the writer, a parser and the queue of pending requests, and     *)
(* callers that submit requests over a channel.                            *)
(***************************************************************************)

\* bounds of the stub's specification
MaxTime == 2
MaxRequests == 2
MaxFrames == 3
MaxFaults == 1

\* the timeout: Duration the stub is constructed with, in clock ticks
Timeout == 1

\* the command codes requests and arriving frames carry
StubCmds == {1, 2}

\* crate::MspParser::parse on raw payload bytes: the payload never fails to decode
StubParse(self, input) == MspParser_parse(self, input, Len(self.packet_data))

\* crate::MspPacket::serialize_v2 into the buffer the stub allocates for it
StubSerializeV2(message) ==
    MspPacket_serialize_v2(message, packet_size_bytes_v2(message)).output

\* Result<MspPacket, MspPacketParseError> as a delivery channel carries it
DeliverOk(packet) == [tag |-> "Ok", packet |-> packet]

DeliverTimedOut == [tag |-> "TimedOut", packet |-> NoPacket]

\* p.ts.elapsed() > timeout
Expired(p) == now - p.ts > Timeout

\* the requests of a queue that have not expired, by the caller they belong to
Unexpired(queue) ==
    LET live == SelectSeq(queue, LAMBDA p : ~Expired(p))
    IN  [i \in 1..Len(live) |-> live[i].backchannel]

\* the request message request() builds for a command
RequestMessage(c) == [cmd |-> c, direction |-> "Request", data |-> <<>>]

\* the k-th frame the transport delivers, for a command
ResponseFrame(c, k) == [cmd |-> c, direction |-> "Response", data |-> <<k>>]

\* what the transport can do to a frame: none of it, or one byte altered so
\* that the parser answers UnknownVersion, UnknownDirection or CrcMismatch
Damages == {"version", "direction", "checksum"}

Damaged(bytes, damage) ==
    [i \in 1..Len(bytes) |->
        IF damage = "version" /\ i = 2 THEN 0
        ELSE IF damage = "direction" /\ i = 3 THEN 0
        ELSE IF damage = "checksum" /\ i = Len(bytes) THEN Xor(bytes[i], 1)
        ELSE bytes[i]]

\* the task has a step it takes without waiting: a ready branch of select!,
\* or an iteration of the correlation loop that changes something
Ready ==
    \/ /\ dpc = "select"
       /\ (reader # <<>> \/ rx # <<>> \/ ~txOpen)
    \/ /\ dpc = "correlate"
       /\ (pending = <<>> \/ Expired(Head(pending)) \/ Head(pending).cmd = response.cmd)

\* callers and the transport act between frames: their steps commute with the
\* reads of the bytes inside a frame, which touch only buf, reader and parser
BetweenFrames == reader = <<>> \/ state_is_between_packets(parser)

\* lib.rs is not among the sources: its serialize_v2 either refuses the empty
\* Vec the stub hands it, as packet.rs:357-362 does, or fills it
InitStub ==
    /\ InitFeed
    /\ RtIdle
    /\ StubStart
    /\ sizeCheck \in BOOLEAN

\* request(): a caller makes a delivery channel and sends the request on tx
Submit(c) ==
    /\ BetweenFrames
    /\ Len(reqs) < MaxRequests
    /\ txOpen
    /\ dpc # "panicked"
    /\ reqs' = Append(reqs, c)
    /\ alive' = Append(alive, TRUE)
    /\ delivered' = Append(delivered, <<>>)
    /\ rx' = Append(rx, [message |-> RequestMessage(c), backchannel |-> Len(reqs) + 1])
    /\ UNCHANGED <<now, buf, pending, txOpen, reader, readerClosed, writer, response,
                   dpc, frames, done, faults>>
    /\ UNCHANGED <<sizeCheck, decoded, panicLine, readFailed>>
    /\ UNCHANGED <<feedVars, rtVars>>

\* the request branch of select!: serialize into Vec::with_capacity (a buffer of
\* length 0), write, push_back with ts = now; serialize_v2(..).unwrap() panics
\* when the buffer is refused; write() accepts the whole buffer, or (short) all
\* but its last byte
HandleRequest(short) ==
    /\ dpc = "select"
    /\ rx # <<>>
    /\ short => (faults < MaxFaults /\ ~sizeCheck)
    /\ LET req == Head(rx)
           size == packet_size_bytes_v2(req.message)
           r == MspPacket_serialize_v2(req.message, IF sizeCheck THEN 0 ELSE size)
           n == IF short THEN Len(r.output) - 1 ELSE Len(r.output)
       IN  /\ rx' = Tail(rx)
           /\ IF r.ret.tag = "Err"
              THEN /\ dpc' = "panicked"
                   /\ panicLine' = 66
                   /\ UNCHANGED <<writer, faults, pending>>
              ELSE /\ writer' = Append(writer, SubSeq(r.output, 1, n))
                   /\ faults' = IF short THEN faults + 1 ELSE faults
                   /\ pending' = Append(pending, [cmd |-> req.message.cmd,
                                                  backchannel |-> req.backchannel,
                                                  ts |-> now])
                   /\ UNCHANGED <<dpc, panicLine>>
    /\ UNCHANGED <<now, buf, txOpen, reader, readerClosed, response, alive,
                   delivered, reqs, frames, done>>
    /\ UNCHANGED <<sizeCheck, decoded, readFailed>>
    /\ UNCHANGED <<feedVars, rtVars>>

\* the request branch when rx.next() yields None: new_request.unwrap() panics
HandleRequestNone ==
    /\ dpc = "select"
    /\ rx = <<>>
    /\ ~txOpen
    /\ dpc' = "panicked"
    /\ panicLine' = 64
    /\ UNCHANGED <<sizeCheck, decoded, readFailed>>
    /\ UNCHANGED <<now, buf, pending, rx, txOpen, reader, readerClosed, writer, response,
                   alive, delivered, reqs, frames, done, faults>>
    /\ UNCHANGED <<feedVars, rtVars>>

\* ParseBuf with an error of the parser treated as the other results of
\* the task are, by unwrap()
ParseBuf_ErrPanics(b) ==
    LET r == StubParse(parser, b)
    IN  /\ parser' = r.self
        /\ ret' = r.ret
        /\ IF r.ret.tag = "Some"
           THEN /\ response' = r.ret.packet
                /\ dpc' = "correlate"
                /\ decoded' = [queue |-> pending, at |-> now]
           ELSE IF r.ret.tag = "Err"
                THEN /\ dpc' = "panicked"
                     /\ UNCHANGED <<response, decoded>>
                ELSE UNCHANGED <<response, dpc, decoded>>

\* what the read branch does with the byte in buf[0]
ParseBuf(b) ==
    LET r == StubParse(parser, b)
    IN  /\ parser' = r.self
        /\ ret' = r.ret
        /\ IF r.ret.tag = "Some"
           THEN /\ response' = r.ret.packet
                /\ dpc' = "correlate"
                /\ decoded' = [queue |-> pending, at |-> now]
           ELSE UNCHANGED <<response, dpc, decoded>>

\* the read branch of select!: read_exact fills buf[0], the parser gets it
ReadByte ==
    /\ dpc = "select"
    /\ reader # <<>>
    /\ buf' = Head(reader)
    /\ reader' = Tail(reader)
    /\ ParseBuf(Head(reader))
    /\ UNCHANGED <<sizeCheck, panicLine, readFailed>>
    /\ UNCHANGED <<now, pending, rx, txOpen, readerClosed, writer, alive, delivered,
                   reqs, frames, done, faults>>
    /\ UNCHANGED <<op, lastInput, lastState, consumed, hadErr, resetFrom, fresh, retFresh>>
    /\ UNCHANGED rtVars

\* the read branch when read_exact fails: its result is discarded and the
\* parser gets buf[0] as the last read left it
ReadFail ==
    /\ dpc = "select"
    /\ reader = <<>>
    /\ readerClosed
    /\ ParseBuf(buf)
    /\ readFailed' = TRUE
    /\ UNCHANGED <<sizeCheck, panicLine>>
    /\ UNCHANGED <<now, buf, pending, rx, txOpen, reader, readerClosed, writer, alive,
                   delivered, reqs, frames, done, faults>>
    /\ UNCHANGED <<op, lastInput, lastState, consumed, hadErr, resetFrom, fresh, retFresh>>
    /\ UNCHANGED rtVars

\* backchannel.send(result).await.unwrap() followed by pending.pop_front():
\* send fails, and unwrap panics, when the caller dropped the receiver
SendAndPop(p, result, after, line) ==
    IF alive[p.backchannel]
    THEN /\ delivered' = [delivered EXCEPT ![p.backchannel] = Append(@, result)]
         /\ pending' = Tail(pending)
         /\ dpc' = after
         /\ done' = IF after = "select" THEN done + 1 ELSE done
         /\ UNCHANGED panicLine
    ELSE /\ dpc' = "panicked"
         /\ panicLine' = line
         /\ UNCHANGED <<delivered, pending, done>>

\* Correlate with the two tests of the loop body in the other order
Correlate_MatchFirst ==
    /\ dpc = "correlate"
    /\ IF pending = <<>>
       THEN /\ dpc' = "select"
            /\ done' = done + 1
            /\ UNCHANGED <<delivered, pending, panicLine>>
       ELSE LET p == Head(pending)
            IN  IF p.cmd = response.cmd
                THEN SendAndPop(p, DeliverOk(response), "select", 51)
                ELSE IF Expired(p)
                     THEN SendAndPop(p, DeliverTimedOut, "correlate", 48)
                     ELSE UNCHANGED <<delivered, pending, dpc, done, panicLine>>
    /\ UNCHANGED <<sizeCheck, decoded, readFailed>>
    /\ UNCHANGED <<now, buf, rx, txOpen, reader, readerClosed, writer, response, alive,
                   reqs, frames, faults>>
    /\ UNCHANGED <<feedVars, rtVars>>

\* Correlate without the break after the response is sent
Correlate_NoBreak ==
    /\ dpc = "correlate"
    /\ IF pending = <<>>
       THEN /\ dpc' = "select"
            /\ done' = done + 1
            /\ UNCHANGED <<delivered, pending, panicLine>>
       ELSE LET p == Head(pending)
            IN  IF Expired(p)
                THEN SendAndPop(p, DeliverTimedOut, "correlate", 48)
                ELSE IF p.cmd = response.cmd
                     THEN SendAndPop(p, DeliverOk(response), "correlate", 51)
                     ELSE UNCHANGED <<delivered, pending, dpc, done, panicLine>>
    /\ UNCHANGED <<sizeCheck, decoded, readFailed>>
    /\ UNCHANGED <<now, buf, rx, txOpen, reader, readerClosed, writer, response, alive,
                   reqs, frames, faults>>
    /\ UNCHANGED <<feedVars, rtVars>>

\* one evaluation of the correlation loop's condition and body
Correlate ==
    /\ dpc = "correlate"
    /\ IF pending = <<>>
       THEN /\ dpc' = "select"
            /\ done' = done + 1
            /\ UNCHANGED <<delivered, pending, panicLine>>
       ELSE LET p == Head(pending)
            IN  IF Expired(p)
                THEN SendAndPop(p, DeliverTimedOut, "correlate", 48)
                ELSE IF p.cmd = response.cmd
                     THEN SendAndPop(p, DeliverOk(response), "select", 51)
                     ELSE UNCHANGED <<delivered, pending, dpc, done, panicLine>>
    /\ UNCHANGED <<sizeCheck, decoded, readFailed>>
    /\ UNCHANGED <<now, buf, rx, txOpen, reader, readerClosed, writer, response, alive,
                   reqs, frames, faults>>
    /\ UNCHANGED <<feedVars, rtVars>>

\* time passes while the task waits in select! or spins in the loop
Tick ==
    /\ now < MaxTime
    /\ ~Ready
    /\ now' = now + 1
    /\ UNCHANGED <<buf, pending, rx, txOpen, reader, readerClosed, writer, response, dpc,
                   alive, delivered, reqs, frames, done, faults>>
    /\ UNCHANGED <<sizeCheck, decoded, panicLine, readFailed>>
    /\ UNCHANGED <<feedVars, rtVars>>

\* the transport delivers a v2 frame, intact ("none") or damaged
Arrive(c, damage) ==
    /\ BetweenFrames
    /\ Len(frames) < MaxFrames
    /\ ~readerClosed
    /\ damage # "none" => faults < MaxFaults
    /\ LET k == Len(frames) + 1
           bytes == StubSerializeV2(ResponseFrame(c, k))
       IN  /\ reader' = reader \o Damaged(bytes, damage)
           /\ frames' = Append(frames, [cmd |-> c, corrupt |-> damage # "none",
                                        snap |-> Unexpired(pending)])
    /\ faults' = IF damage # "none" THEN faults + 1 ELSE faults
    /\ UNCHANGED <<now, buf, pending, rx, txOpen, readerClosed, writer, response, dpc,
                   alive, delivered, reqs, done>>
    /\ UNCHANGED <<sizeCheck, decoded, panicLine, readFailed>>
    /\ UNCHANGED <<feedVars, rtVars>>

\* the transport reaches end of file: every later read_exact fails
CloseReader ==
    /\ BetweenFrames
    /\ faults < MaxFaults
    /\ ~readerClosed
    /\ readerClosed' = TRUE
    /\ faults' = faults + 1
    /\ UNCHANGED <<now, buf, pending, rx, txOpen, reader, writer, response, dpc, alive,
                   delivered, reqs, frames, done>>
    /\ UNCHANGED <<sizeCheck, decoded, panicLine, readFailed>>
    /\ UNCHANGED <<feedVars, rtVars>>

\* a caller drops the future of request() before it got a result
DropReceiver(id) ==
    /\ BetweenFrames
    /\ faults < MaxFaults
    /\ id \in 1..Len(reqs)
    /\ alive[id]
    /\ delivered[id] = <<>>
    /\ alive' = [alive EXCEPT ![id] = FALSE]
    /\ faults' = faults + 1
    /\ UNCHANGED <<now, buf, pending, rx, txOpen, reader, readerClosed, writer, response,
                   dpc, delivered, reqs, frames, done>>
    /\ UNCHANGED <<sizeCheck, decoded, panicLine, readFailed>>
    /\ UNCHANGED <<feedVars, rtVars>>

\* the AsyncMspStub handle, and with it tx, is dropped
DropHandle ==
    /\ BetweenFrames
    /\ faults < MaxFaults
    /\ txOpen
    /\ txOpen' = FALSE
    /\ faults' = faults + 1
    /\ UNCHANGED <<now, buf, pending, rx, reader, readerClosed, writer, response, dpc,
                   alive, delivered, reqs, frames, done>>
    /\ UNCHANGED <<sizeCheck, decoded, panicLine, readFailed>>
    /\ UNCHANGED <<feedVars, rtVars>>

\* the stub with a transport and callers that do not fail
NextStub ==
    \/ \E c \in StubCmds : Submit(c)
    \/ HandleRequest(FALSE)
    \/ ReadByte
    \/ Correlate
    \/ Tick
    \/ \E c \in StubCmds : Arrive(c, "none")

SpecStub == InitStub /\ [][NextStub]_vars

\* the stub with a transport that damages frames and sends a frame when the
\* reader holds none, and with one request and one frame fewer than the bounds
\* allow
NextStubDamage ==
    \/ (Len(reqs) < MaxRequests - 1 /\ \E c \in StubCmds : Submit(c))
    \/ HandleRequest(FALSE)
    \/ ReadByte
    \/ Correlate
    \/ Tick
    \/ (Len(frames) < MaxFrames - 1 /\ reader = <<>> /\
            \E c \in StubCmds, damage \in Damages \cup {"none"} : Arrive(c, damage))

SpecStubDamage == InitStub /\ [][NextStubDamage]_vars

\* the stub with callers that submit every request the bounds allow, each
\* once the task has received the one before, and a transport that sends a
\* frame, intact or with a damaged checksum, when the reader holds none and
\* no request waits on rx, one frame fewer than the bounds allow
NextStubOnce ==
    \/ (reader = <<>> /\ rx = <<>> /\ \E c \in StubCmds : Submit(c))
    \/ HandleRequest(FALSE)
    \/ ReadByte
    \/ Correlate
    \/ Tick
    \/ (Len(frames) < MaxFrames - 1 /\ reader = <<>> /\ rx = <<>> /\
            \E c \in StubCmds, damage \in {"checksum", "none"} : Arrive(c, damage))

SpecStubOnce == InitStub /\ [][NextStubOnce]_vars

\* the same, with the task taking every step it is ready for and time passing
SpecStubLive ==
    /\ SpecStub
    /\ WF_vars(HandleRequest(FALSE))
    /\ WF_vars(ReadByte)
    /\ WF_vars(Correlate)
    /\ WF_vars(Tick)

\* the stub with at most MaxFaults failures of the transport and the callers
NextStubFaults ==
    \/ NextStub
    \/ HandleRequest(TRUE)
    \/ HandleRequestNone
    \/ ReadFail
    \/ \E c \in StubCmds : Arrive(c, "checksum")
    \/ CloseReader
    \/ \E id \in 1..MaxRequests : DropReceiver(id)
    \/ DropHandle

SpecStubFaults == InitStub /\ [][NextStubFaults]_vars

\* the request each arrived frame answers: the earliest request with the
\* frame's command that was pending and unexpired when the frame arrived and
\* that no earlier frame answers; 0 when there is none, when the frame is
\* damaged, or when an earlier frame with the command answers no request
RECURSIVE Targets(_)
Targets(k) ==
    IF k = 0
    THEN <<>>
    ELSE LET prev == Targets(k - 1)
             f == frames[k]
             orphaned == \E m \in 1..(k - 1) :
                             frames[m].cmd = f.cmd /\ ~frames[m].corrupt /\ prev[m] = 0
             cands == {i \in 1..Len(f.snap) :
                          /\ reqs[f.snap[i]] = f.cmd
                          /\ \A m \in 1..(k - 1) : prev[m] # f.snap[i]}
             first == CHOOSE i \in cands : \A o \in cands : i <= o
         IN  Append(prev, IF f.corrupt \/ orphaned \/ cands = {} THEN 0 ELSE f.snap[first])

InSnap(id, k) == \E i \in 1..Len(frames[k].snap) : frames[k].snap[i] = id

\* frames a < b with one command arrived while the two requests they answer
\* were both pending and unexpired, and the stub has handled both frames
FifoCase(a, b) ==
    LET t == Targets(Len(frames))
    IN  /\ a < b
        /\ frames[a].cmd = frames[b].cmd
        /\ t[a] # 0
        /\ t[b] # 0
        /\ InSnap(t[a], a) /\ InSnap(t[b], a)
        /\ InSnap(t[a], b) /\ InSnap(t[b], b)
        /\ b <= done
        /\ dpc = "select"

\* C10: when two requests with one command are pending and unexpired and two
\* valid frames A then B with that command arrive, the request submitted first
\* receives exactly Ok(A) and the second exactly Ok(B).
C10_FifoPerCommand ==
    \A a, b \in 1..Len(frames) :
        FifoCase(a, b) =>
            LET t == Targets(Len(frames))
            IN  /\ t[a] < t[b]
                /\ delivered[t[a]] = <<DeliverOk(ResponseFrame(frames[a].cmd, a))>>
                /\ delivered[t[b]] = <<DeliverOk(ResponseFrame(frames[b].cmd, b))>>

\* the case of C10 where the stub does pair the frames with the requests
C10_PairedInOrder ==
    \E a, b \in 1..Len(frames) :
        /\ FifoCase(a, b)
        /\ delivered[Targets(Len(frames))[a]] = <<DeliverOk(ResponseFrame(frames[a].cmd, a))>>
        /\ delivered[Targets(Len(frames))[b]] = <<DeliverOk(ResponseFrame(frames[b].cmd, b))>>

\* p.ts.elapsed() > timeout as it was when response was decoded
ExpiredAtDecode(p) == decoded.at - p.ts > Timeout

\* the places in the queue at decode of the requests with the response's command
MatchesAtDecode == {i \in 1..Len(decoded.queue) : decoded.queue[i].cmd = response.cmd}

\* a queue without its i-th entry
Without(queue, i) ==
    [j \in 1..(Len(queue) - 1) |-> IF j < i THEN queue[j] ELSE queue[j + 1]]

\* the handling of the decoded response is over and the task is in select! again
Handled == dpc = "select" /\ done > 0

\* C11: when a valid response with command c is decoded while every pending
\* request is unexpired, it is delivered as Ok to the earliest pending request
\* with command c and that request alone leaves the queue; requests with other
\* commands ahead of it stay pending and receive nothing.
C11_ScansPastOthers ==
    (/\ Handled
     /\ MatchesAtDecode # {}
     /\ \A i \in 1..Len(decoded.queue) : ~ExpiredAtDecode(decoded.queue[i]))
    => LET q == decoded.queue
           m == CHOOSE i \in MatchesAtDecode : \A o \in MatchesAtDecode : i <= o
       IN  /\ delivered[q[m].backchannel] = <<DeliverOk(response)>>
           /\ \A i \in 1..Len(q) : i # m => delivered[q[i].backchannel] = <<>>
           /\ Len(pending) >= Len(q) - 1
           /\ SubSeq(pending, 1, Len(q) - 1) = Without(q, m)

\* C13: when a valid frame is decoded and no pending request has its command,
\* no request that was unexpired at that moment is removed or resolved, and the
\* task is back in select!.
C13_UnsolicitedDropped ==
    (/\ Handled
     /\ MatchesAtDecode = {})
    => \A i \in 1..Len(decoded.queue) :
           ~ExpiredAtDecode(decoded.queue[i])
           => /\ delivered[decoded.queue[i].backchannel] = <<>>
              /\ \E j \in 1..Len(pending) : pending[j] = decoded.queue[i]

\* C20: the correlation loop runs to its end without waiting: no time passes
\* between the decoding of a response and the return to select!.
C20_LoopDoesNotWait ==
    dpc = "correlate" => now = decoded.at

\* request id is in the pending queue and its timeout has elapsed
PendingExpired(id) ==
    \E i \in 1..Len(pending) : pending[i].backchannel = id /\ Expired(pending[i])

\* request id has received a result
Resolved(id) == id <= Len(delivered) /\ delivered[id] # <<>>

\* no byte is waiting on the reader and no submission on the channel
Silent == reader = <<>> /\ rx = <<>>

\* C12: a pending request whose timeout has elapsed is eventually resolved
\* (with TimedOut) although no byte arrives and no request is submitted.
C12_TimeoutLiveness ==
    \A id \in 1..MaxRequests :
        (PendingExpired(id) /\ Silent) ~> (Resolved(id) \/ ~Silent)

\* the number of requests the task has received from the channel
Received == Len(reqs) - Len(rx)

\* C14: for the requests the task has received, the writer holds each one's
\* complete v2 frame (9 bytes and the payload), in the order of submission, and
\* the queue got one entry for each, in that order.
C14_WireOrder ==
    /\ Len(writer) = Received
    /\ \A i \in 1..Received :
           /\ i <= Len(writer)
           /\ writer[i] = Serialized(RequestMessage(reqs[i]), "V2")
           /\ Len(writer[i]) = 9 + Len(RequestMessage(reqs[i]).data)
           /\ \/ delivered[i] # <<>>
              \/ \E j \in 1..Len(pending) : pending[j].backchannel = i
    /\ \A j, k \in 1..Len(pending) :
           j < k => pending[j].backchannel < pending[k].backchannel

\* the task runs: it is in select! or in the correlation loop
TaskRuns == dpc = "select" \/ dpc = "correlate"

\* C15: once a read on the reader has failed, the task has stopped and no
\* request is left pending: each one was resolved (with a Transport error).
C15_ReaderFailureStops ==
    (readFailed /\ pending # <<>>) =>
        /\ ~TaskRuns
        /\ \A i \in 1..Len(pending) : delivered[pending[i].backchannel] # <<>>

\* C16: with the handle dropped, the task does not stop while requests are
\* pending: it resolves them (with Cancelled) before it exits.
C16_HandleDropDrains ==
    (~txOpen /\ pending # <<>>) => TaskRuns

\* C17: a delivery to a caller that dropped its receiver does not stop the
\* task: neither unwrap() of a failed send panics.
C17_LazyCancellation ==
    ~(dpc = "panicked" /\ panicLine \in {48, 51})

\* a step of the read branch that took a byte from the reader
ReadStep == reader # <<>> /\ reader' = Tail(reader)

\* C18: when the parser answers an incoming byte with an error, the pending
\* queue and every delivery channel are as they were and the task is in
\* select!, reading on.
C18_ParseErrorsHarmless ==
    [][(ReadStep /\ ret'.tag = "Err")
       => (/\ pending' = pending
           /\ delivered' = delivered
           /\ dpc' = "select"
           /\ panicLine' = 0)]_vars

\* a pending request, unexpired, has seen the byte that damages its response
\* answered with CrcMismatch
C18_Witness ==
    /\ ret.tag = "Err"
    /\ ret.err.type = "CrcMismatch"
    /\ \E i \in 1..Len(pending) :
           /\ ~Expired(pending[i])
           /\ pending[i].cmd = frames[Len(frames)].cmd
           /\ delivered[pending[i].backchannel] = <<>>
    /\ dpc = "select"

\* C19: a step that delivers a result delivers it to the head of the queue
\* while a response is handled; TimedOut only when the head's age exceeds the
\* timeout at that moment, and the response only to a head that is unexpired at
\* that moment and has its command.
C19_ReapBeforeCorrelate ==
    [][\A id \in 1..Len(delivered) :
          delivered'[id] # delivered[id]
          => /\ dpc = "correlate"
             /\ pending # <<>>
             /\ Head(pending).backchannel = id
             /\ delivered'[id] = Append(delivered[id], delivered'[id][Len(delivered'[id])])
             /\ LET p == Head(pending)
                    r == delivered'[id][Len(delivered'[id])]
                IN  /\ r.tag = "TimedOut" => Expired(p)
                    /\ r.tag = "Ok" => (~Expired(p) /\ p.cmd = response.cmd /\ r.packet = response)]_vars

\* the head of the queue had the response's command and had expired when the
\* response was decoded, and it got TimedOut, not the response
C19_Witness ==
    /\ decoded.queue # <<>>
    /\ Head(decoded.queue).cmd = response.cmd
    /\ ExpiredAtDecode(Head(decoded.queue))
    /\ delivered[Head(decoded.queue).backchannel] = <<DeliverTimedOut>>
    /\ dpc = "select"

\* the callers whose delivery channel holds Ok of a packet
OkReceivers(packet) ==
    {id \in 1..Len(delivered) :
        \E j \in 1..Len(delivered[id]) : delivered[id][j] = DeliverOk(packet)}

\* C21: the delivery channel of a request receives at most one result, Ok of
\* a frame or an error, and a decoded response frame is delivered to at most
\* one request.
C21_ResolvedAtMostOnce ==
    /\ \A id \in 1..Len(delivered) : Len(delivered[id]) <= 1
    /\ \A k \in 1..Len(frames) :
           Cardinality(OkReceivers(ResponseFrame(frames[k].cmd, k))) <= 1

\* two requests with the response's command were pending and unexpired when
\* it was decoded; the stub has handled it, the first has it and the second
\* has nothing
C21_Witness ==
    /\ Handled
    /\ \E i, j \in 1..Len(decoded.queue) :
           LET p == decoded.queue[i]
               q == decoded.queue[j]
           IN  /\ i < j
               /\ p.cmd = response.cmd /\ q.cmd = response.cmd
               /\ ~ExpiredAtDecode(p) /\ ~ExpiredAtDecode(q)
               /\ delivered[p.backchannel] = <<DeliverOk(response)>>
               /\ delivered[q.backchannel] = <<>>

\* scenario 2 of the specification and test_serialize, as sanity values
SanityCrc ==
    /\ digest(crc8dvb_s2, <<0, 100, 0, 0, 0>>) = 143
    /\ MspPacket_serialize([cmd |-> 2, direction |-> "Request", data |-> <<190, 239>>], 8).output
         = <<36, 77, 60, 2, 2, 190, 239, 81>>
    /\ MspPacket_serialize_v2([cmd |-> 100, direction |-> "Request", data |-> <<>>], 9).output
         = <<36, 88, 60, 0, 100, 0, 0, 0, 143>>

====
